---- MODULE Spec2Model ----
(***************************************************************************)
(* A model of package aster: the Kind enumeration and getBasicKind, the    *)
(* super node facade (newSuper, the common queries and the Kind-guarded    *)
(* reflective operations), and the Format / Store batch operations.        *)
(***************************************************************************)
EXTENDS Naturals, Sequences, FiniteSets, TLC

VARIABLES
    kindLog,     \* the calls of getBasicKind made so far: <<name, k, found>>
    Packages,    \* Module.Packages: package name -> (filename -> File)
    disk,        \* the local files: filename -> content
    fsFail,      \* the file system fault: which writeFile step fails, on which file or directory
    ret,         \* what the last Format / Store call returned
    fmtLog,      \* the File.Format calls of the last Format / Store call
    writeLog,    \* the writeFile calls of the last Store call
    heap,        \* the strings nodes point to: File.PkgName, File.Filename, names
    nodes,       \* the supers created by newSuper, in creation order
    created,     \* the arguments each newSuper call was given
    res,         \* the outcome of the latest call on a node
    declType,    \* the builder's input: the declared type of each declaration
    declKind,    \* the Kind the builder has given each declaration
    phase,       \* "building" until a pass resolves nothing, then "done"
    passes       \* the passes made so far

kindVars == <<kindLog>>
storeVars == <<Packages, disk, fsFail, ret, fmtLog, writeLog>>
nodeVars == <<heap, nodes, created, res>>
buildVars == <<declType, declKind, phase, passes>>
vars == <<kindLog, Packages, disk, fsFail, ret, fmtLog, writeLog, heap, nodes, created, res,
          declType, declKind, phase, passes>>

\* ------------------------------------------------------------------------
\* Bounds
\* ------------------------------------------------------------------------
MaxCalls == 2      \* getBasicKind calls recorded
MaxFiles == 2      \* files of package "a" (package "b" has one file)
MaxNodes == 2      \* nodes created by newSuper
MaxDecls == 3      \* type declarations given to the builder

\* ------------------------------------------------------------------------
\* Kind enumerate
\* ------------------------------------------------------------------------
Invalid == 0
Suspense == 1
Bool == 2
Int == 3
Int8 == 4
Int16 == 5
Int32 == 6
Int64 == 7
Uint == 8
Uint8 == 9
Uint16 == 10
Uint32 == 11
Uint64 == 12
Uintptr == 13
Float32 == 14
Float64 == 15
Complex64 == 16
Complex128 == 17
String == 18
Interface == 19
Chan == 20
Array == 21
Slice == 22
Map == 23
Func == 24
Struct == 25
Ptr == 26

Kinds == Invalid .. Ptr

getBasicKind_uint8slip(basicName) ==
    CASE basicName = "bool" -> <<Bool, TRUE>>
      [] basicName = "int" -> <<Int, TRUE>>
      [] basicName = "int8" -> <<Int8, TRUE>>
      [] basicName = "int16" -> <<Int16, TRUE>>
      [] basicName = "int32" -> <<Int32, TRUE>>
      [] basicName = "int64" -> <<Int64, TRUE>>
      [] basicName = "uint" -> <<Uint, TRUE>>
      [] basicName = "uint8" -> <<Uint16, TRUE>>
      [] basicName = "uint16" -> <<Uint16, TRUE>>
      [] basicName = "uint32" -> <<Uint32, TRUE>>
      [] basicName = "uint64" -> <<Uint64, TRUE>>
      [] basicName = "uintptr" -> <<Uintptr, TRUE>>
      [] basicName = "float32" -> <<Float32, TRUE>>
      [] basicName = "float64" -> <<Float64, TRUE>>
      [] basicName = "complex64" -> <<Complex64, TRUE>>
      [] basicName = "complex128" -> <<Complex128, TRUE>>
      [] basicName = "string" -> <<String, TRUE>>
      [] OTHER -> <<Invalid, FALSE>>

\* func getBasicKind(basicName string) (k Kind, found bool)
getBasicKind(basicName) ==
    CASE basicName = "bool" -> <<Bool, TRUE>>
      [] basicName = "int" -> <<Int, TRUE>>
      [] basicName = "int8" -> <<Int8, TRUE>>
      [] basicName = "int16" -> <<Int16, TRUE>>
      [] basicName = "int32" -> <<Int32, TRUE>>
      [] basicName = "int64" -> <<Int64, TRUE>>
      [] basicName = "uint" -> <<Uint, TRUE>>
      [] basicName = "uint8" -> <<Uint8, TRUE>>
      [] basicName = "uint16" -> <<Uint16, TRUE>>
      [] basicName = "uint32" -> <<Uint32, TRUE>>
      [] basicName = "uint64" -> <<Uint64, TRUE>>
      [] basicName = "uintptr" -> <<Uintptr, TRUE>>
      [] basicName = "float32" -> <<Float32, TRUE>>
      [] basicName = "float64" -> <<Float64, TRUE>>
      [] basicName = "complex64" -> <<Complex64, TRUE>>
      [] basicName = "complex128" -> <<Complex128, TRUE>>
      [] basicName = "string" -> <<String, TRUE>>
      [] OTHER -> <<Invalid, FALSE>>

\* The strings getBasicKind is called with: the builtin identifiers and
\* strings that are near them (case, width, aliases, keywords, empty).
NameInputs ==
    {"bool", "int", "int8", "int16", "int32", "int64", "uint", "uint8",
     "uint16", "uint32", "uint64", "uintptr", "float32", "float64",
     "complex64", "complex128", "string",
     "", "Bool", "INT", "int128", "uint128", "float", "complex", "byte",
     "rune", "error", "struct", "func", "interface", "String", " int"}

\* A caller classifies one identifier.
CallGetBasicKind(basicName) ==
    /\ Len(kindLog) < MaxCalls
    /\ LET r == getBasicKind(basicName)
       IN kindLog' = Append(kindLog, <<basicName, r[1], r[2]>>)
    /\ UNCHANGED <<storeVars, nodeVars, buildVars>>

\* ------------------------------------------------------------------------
\* Format and Store (format.go)
\* ------------------------------------------------------------------------
Nil == <<"nil", <<>>>>                 \* the nil error
FormatErr(f) == <<"format", f>>        \* the error format.Node returns on f
WriteErr(stage, f) == <<stage, f>>     \* the error writeFile returns on f
Text(f) == <<"text", f>>               \* the rendered text of f
Old(f) == <<"old", f>>                 \* the source f was loaded from
Trunc(f) == <<"trunc", f>>             \* created, then the write failed
NoFault == <<"none", <<>>>>
Stages == {"abs", "mkdir", "create", "write"}

PkgNames == {"a", "b"}
FilesOf(p) == IF p = "a" THEN {<<"a", i>> : i \in 1 .. MaxFiles} ELSE {<<"b", 1>>}
AllFiles == UNION {FilesOf(p) : p \in PkgNames}

\* The orders in which a Go range statement may visit the keys of a map.
RangeOrders(S) ==
    {o \in [1 .. Cardinality(S) -> S] : \A i, j \in 1 .. Cardinality(S) : o[i] = o[j] => i = j}

NoCodes == [f \in {} |-> Nil]

\* A record of the calls one operation made to a callee: the arguments it was
\* called with, the argument of the latest call, and the number of calls.
NoCalls == [calls |-> {}, last |-> <<>>, n |-> 0]
Called(log, c, f) == [calls |-> log.calls \cup {c}, last |-> f, n |-> log.n + 1]

\* func (f *File) Format() (string, error): <<code, err>>
FileFormat(f) ==
    IF Packages[f[1]][f] = "ok" THEN <<Text(f), Nil>> ELSE <<<<>>, FormatErr(f)>>

\* func (p *Package) Format(), the loop from position i of the range order
RECURSIVE PackageFormatFrom(_, _, _, _)
PackageFormatFrom(order, i, codes, log) ==
    IF i > Len(order) THEN [codes |-> codes, first |-> Nil, log |-> log]
    ELSE LET r == FileFormat(order[i])
         IN IF r[2] # Nil
            THEN [codes |-> codes, first |-> r[2], log |-> Called(log, order[i], order[i])]
            ELSE PackageFormatFrom(order, i + 1, (order[i] :> r[1]) @@ codes,
                                   Called(log, order[i], order[i]))

PackageFormat(order, log) == PackageFormatFrom(order, 1, NoCodes, log)

\* func (m *Module) Format(), the loop from position i of the range order;
\* codes is <package name -> <filename -> code>>
RECURSIVE ModuleFormatFrom(_, _, _, _, _)
ModuleFormatFrom(pkgOrder, fileOrders, i, codes, log) ==
    IF i > Len(pkgOrder) THEN [codes |-> codes, first |-> Nil, log |-> log]
    ELSE LET sub == PackageFormat(fileOrders[pkgOrder[i]], log)
         IN IF sub.first # Nil
            THEN [codes |-> codes, first |-> sub.first, log |-> sub.log]
            ELSE ModuleFormatFrom(pkgOrder, fileOrders, i + 1,
                                  (pkgOrder[i] :> sub.codes) @@ codes, sub.log)

ModuleFormat(pkgOrder, fileOrders) ==
    ModuleFormatFrom(pkgOrder, fileOrders, 1, [p \in {} |-> NoCodes], NoCalls)

\* The directory of package p, and whether a fault on target hits filename:
\* a fault on a directory hits every file in it.
DirOf(p) == <<p, 0>>
Hits(target, filename) == target = filename \/ target = DirOf(filename[1])

\* func writeFile(filename, text string) error, on the disk d
writeFile(d, filename, text) ==
    IF fsFail # NoFault /\ Hits(fsFail[2], filename)
    THEN IF fsFail[1] = "write"
         THEN [disk |-> [d EXCEPT ![filename] = Trunc(filename)],
               err |-> WriteErr("write", filename)]
         ELSE [disk |-> d, err |-> WriteErr(fsFail[1], filename)]
    ELSE [disk |-> [d EXCEPT ![filename] = text], err |-> Nil]

\* func (p *Package) Store(), the range over codes from position j
RECURSIVE PackageStoreFrom(_, _, _, _, _)
PackageStoreFrom(codes, order, j, d, log) ==
    IF j > Len(order) THEN [disk |-> d, first |-> Nil, log |-> log]
    ELSE LET w == writeFile(d, order[j], codes[order[j]])
         IN IF w.err # Nil
            THEN [disk |-> w.disk, first |-> w.err,
                  log |-> Called(log, <<order[j], w.err>>, order[j])]
            ELSE PackageStoreFrom(codes, order, j + 1, w.disk,
                                  Called(log, <<order[j], w.err>>, order[j]))

\* Module.Store with the early return of the inner range left out: the loop
\* goes on after a failed write and the error is returned at the end.
RECURSIVE ModuleStoreInner_noReturn(_, _, _, _, _)
ModuleStoreInner_noReturn(v, order, j, d, log) ==
    IF j > Len(order) THEN [disk |-> d, first |-> Nil, log |-> log]
    ELSE LET w == writeFile(d, order[j], v[order[j]])
             rest == ModuleStoreInner_noReturn(v, order, j + 1, w.disk,
                                               Called(log, <<order[j], w.err>>, order[j]))
         IN IF w.err # Nil THEN [rest EXCEPT !.first = w.err] ELSE rest

\* func (m *Module) Store(), the inner range (for kk, vv := range v) from j
RECURSIVE ModuleStoreInner(_, _, _, _, _)
ModuleStoreInner(v, order, j, d, log) ==
    IF j > Len(order) THEN [disk |-> d, first |-> Nil, log |-> log]
    ELSE LET w == writeFile(d, order[j], v[order[j]])
         IN IF w.err # Nil
            THEN [disk |-> w.disk, first |-> w.err,
                  log |-> Called(log, <<order[j], w.err>>, order[j])]
            ELSE ModuleStoreInner(v, order, j + 1, w.disk,
                                  Called(log, <<order[j], w.err>>, order[j]))

\* func (m *Module) Store(), the outer range (for _, v := range codes) from i
RECURSIVE ModuleStoreFrom(_, _, _, _, _, _)
ModuleStoreFrom(codes, pkgOrder, fileOrders, i, d, log) ==
    IF i > Len(pkgOrder) THEN [disk |-> d, first |-> Nil, log |-> log]
    ELSE LET in == ModuleStoreInner(codes[pkgOrder[i]], fileOrders[pkgOrder[i]], 1, d, log)
         IN IF in.first # Nil
            THEN in
            ELSE ModuleStoreFrom(codes, pkgOrder, fileOrders, i + 1, in.disk, in.log)

\* The range orders of Module.Packages, of each Package.Files, and the
\* choices of one order per package.
PkgOrders == RangeOrders(PkgNames)
FileOrdersOf == [p \in PkgNames |-> RangeOrders(FilesOf(p))]
FileOrders == {fo \in [PkgNames -> UNION {FileOrdersOf[p] : p \in PkgNames}] :
                  \A p \in PkgNames : fo[p] \in FileOrdersOf[p]}

\* What one call can return, over the range orders Go may pick.
ModuleFormatResults ==
    {ModuleFormat(pkgOrder, fileOrders) : pkgOrder \in PkgOrders, fileOrders \in FileOrders}
PackageFormatResults(p) ==
    {PackageFormat(order, NoCalls) : order \in FileOrdersOf[p]}
ModuleStoreResults(codes) ==
    {ModuleStoreFrom(codes, pkgOrder, fileOrders, 1, disk, NoCalls) :
        pkgOrder \in PkgOrders, fileOrders \in FileOrders}
PackageStoreResults(p, codes) ==
    {PackageStoreFrom(codes, order, 1, disk, NoCalls) : order \in FileOrdersOf[p]}

\* m.Format() is called.
CallModuleFormat ==
    \E fr \in ModuleFormatResults :
        /\ ret' = [op |-> "Module.Format", batch |-> AllFiles,
                   err |-> fr.first, codes |-> fr.codes]
        /\ fmtLog' = fr.log
        /\ writeLog' = NoCalls
        /\ UNCHANGED <<disk, kindLog, Packages, fsFail, nodeVars, buildVars>>

\* p.Format() is called.
CallPackageFormat(p) ==
    \E fr \in PackageFormatResults(p) :
        /\ ret' = [op |-> "Package.Format", batch |-> FilesOf(p),
                   err |-> fr.first, codes |-> fr.codes]
        /\ fmtLog' = fr.log
        /\ writeLog' = NoCalls
        /\ UNCHANGED <<disk, kindLog, Packages, fsFail, nodeVars, buildVars>>

\* func (m *Module) Store() (first error)
ModuleStore ==
    \E fr \in ModuleFormatResults :
        IF fr.first # Nil
        THEN /\ ret' = [op |-> "Module.Store", batch |-> AllFiles,
                        err |-> fr.first, codes |-> NoCodes]
             /\ fmtLog' = fr.log
             /\ writeLog' = NoCalls
             /\ disk' = disk
        ELSE \E sr \in ModuleStoreResults(fr.codes) :
                 /\ ret' = [op |-> "Module.Store", batch |-> AllFiles,
                            err |-> sr.first, codes |-> NoCodes]
                 /\ fmtLog' = fr.log
                 /\ writeLog' = sr.log
                 /\ disk' = sr.disk

\* m.Store() is called.
CallModuleStore ==
    /\ ModuleStore
    /\ UNCHANGED <<kindLog, Packages, fsFail, nodeVars, buildVars>>

\* func (p *Package) Store() (first error)
PackageStore(p) ==
    \E fr \in PackageFormatResults(p) :
        IF fr.first # Nil
        THEN /\ ret' = [op |-> "Package.Store", batch |-> FilesOf(p),
                        err |-> fr.first, codes |-> NoCodes]
             /\ fmtLog' = fr.log
             /\ writeLog' = NoCalls
             /\ disk' = disk
        ELSE \E sr \in PackageStoreResults(p, fr.codes) :
                 /\ ret' = [op |-> "Package.Store", batch |-> FilesOf(p),
                            err |-> sr.first, codes |-> NoCodes]
                 /\ fmtLog' = fr.log
                 /\ writeLog' = sr.log
                 /\ disk' = sr.disk

\* p.Store() is called.
CallPackageStore(p) ==
    /\ PackageStore(p)
    /\ UNCHANGED <<kindLog, Packages, fsFail, nodeVars, buildVars>>

\* File.Store with the check of Format's error left out: the file is written
\* whatever Format returned.
FileStore_writeAnyway(f) ==
    LET fr == FileFormat(f)
        w == writeFile(disk, f, fr[1])
    IN [disk |-> w.disk, err |-> IF fr[2] # Nil THEN fr[2] ELSE w.err,
        log |-> Called(NoCalls, <<f, w.err>>, f)]

\* func (f *File) Store() (err error)
FileStore(f) ==
    LET fr == FileFormat(f)
    IN IF fr[2] # Nil
       THEN [disk |-> disk, err |-> fr[2], log |-> NoCalls]
       ELSE LET w == writeFile(disk, f, fr[1])
            IN [disk |-> w.disk, err |-> w.err, log |-> Called(NoCalls, <<f, w.err>>, f)]

\* f.Store() is called.
CallFileStore(f) ==
    LET sr == FileStore(f)
    IN /\ ret' = [op |-> "File.Store", batch |-> {f}, err |-> sr.err, codes |-> NoCodes]
       /\ fmtLog' = Called(NoCalls, f, f)
       /\ writeLog' = sr.log
       /\ disk' = sr.disk
       /\ UNCHANGED <<kindLog, Packages, fsFail, nodeVars, buildVars>>

\* ------------------------------------------------------------------------
\* super: common node extension info
\* ------------------------------------------------------------------------
NilPtr == <<"nil", "nil">>
FileIds == {"f1", "f2"}                      \* the File objects
IdentIds == {"id1"}                          \* the identifiers names point into
PkgNamePtr(f) == <<f, "PkgName">>            \* &f.PkgName
FilenamePtr(f) == <<f, "Filename">>          \* &f.Filename
IdentNamePtr(id) == <<id, "Name">>           \* &ident.Name
Addrs ==
    {PkgNamePtr(f) : f \in FileIds} \cup {FilenamePtr(f) : f \in FileIds}
        \cup {IdentNamePtr(id) : id \in IdentIds}

PkgNameValues == {"main", "aster"}
FilenameValues == {"a.go", "b.go"}
NameValues == {"", "T"}

\* newSuper with the two back-reference pointers taken from the wrong fields.
newSuper_swappedPtrs(f, namePtr, kind) ==
    [file |-> f, kind |-> kind, namePtr |-> namePtr,
     pkgNamePtr |-> FilenamePtr(f), filenamePtr |-> PkgNamePtr(f)]

\* func (f *File) newSuper(namePtr *string, kind Kind, doc *ast.CommentGroup) *super
\* (doc is left out: no operation modelled here reads it)
newSuper(f, namePtr, kind) ==
    [file |-> f, kind |-> kind, namePtr |-> namePtr,
     pkgNamePtr |-> PkgNamePtr(f), filenamePtr |-> FilenamePtr(f)]

\* func (s *super) Kind() Kind
Kind(s) == s.kind

\* func (s *super) Name() string
Name(s) == IF s.namePtr = NilPtr THEN "" ELSE heap[s.namePtr]

\* func (s *super) PkgName() string
PkgName(s) == heap[s.pkgNamePtr]

\* func (s *super) Filename() string
Filename(s) == heap[s.filenamePtr]

\* What a call does: it returns a value or it panics with a message.
Return(v) == [out |-> "return", val |-> v]
Panic(msg) == [out |-> "panic", val |-> msg]
MustBeFunc == "aster: Kind must be aster.Func!"
CantBeFunc == "aster: Kind cant not be aster.Func!"
MustBeStruct == "aster: Kind must be aster.Struct!"
ComingSoon == "aster: (TODO) Coming soon!"

\* ------------------------ Kind: Func ------------------------
\* func (s *super) NumParam() int
NumParam(s) == IF s.kind # Func THEN Panic(MustBeFunc) ELSE Panic(ComingSoon)

\* func (s *super) NumResult() int
NumResult(s) == IF s.kind # Func THEN Panic(MustBeFunc) ELSE Panic(ComingSoon)

\* func (s *super) Param(int) (*FuncField, bool)
Param(s, i) == IF s.kind # Func THEN Panic(MustBeFunc) ELSE Panic(ComingSoon)

\* func (s *super) Result(int) (*FuncField, bool)
Result(s, i) == IF s.kind # Func THEN Panic(MustBeFunc) ELSE Panic(ComingSoon)

\* func (s *super) IsVariadic() bool
IsVariadic(s) == IF s.kind # Func THEN Panic(MustBeFunc) ELSE Panic(ComingSoon)

\* func (s *super) Recv() (*FuncField, bool)
Recv(s) == IF s.kind # Func THEN Panic(MustBeFunc) ELSE Panic(ComingSoon)

\* ------------------------ Type ------------------------
\* func (s *super) IsAssign() bool
IsAssign(s) == IF s.kind = Func THEN Panic(CantBeFunc) ELSE Panic(ComingSoon)

\* func (s *super) NumMethod() int
NumMethod(s) == IF s.kind = Func THEN Panic(CantBeFunc) ELSE Panic(ComingSoon)

\* func (s *super) Method(int) (FuncNode, bool)
Method(s, i) == IF s.kind = Func THEN Panic(CantBeFunc) ELSE Panic(ComingSoon)

\* func (s *super) MethodByName(string) (FuncNode, bool)
MethodByName(s, name) == IF s.kind = Func THEN Panic(CantBeFunc) ELSE Panic(ComingSoon)

\* func (s *super) Implements(u TypeNode) bool
Implements(s, u) == IF s.kind = Func THEN Panic(CantBeFunc) ELSE Panic(ComingSoon)

\* addMethod with the Kind guard turned into a returned error.
addMethod_returnsError(s, fn) ==
    IF s.kind = Func THEN Return("ReceiverMismatchError") ELSE Panic(ComingSoon)

\* func (s *super) addMethod(FuncNode) error
addMethod(s, fn) == IF s.kind = Func THEN Panic(CantBeFunc) ELSE Panic(ComingSoon)

\* -------------- Only for Kind=Struct ---------------
\* NumField with the Kind guard left out and the count of an empty field
\* list returned.
NumField_noGuard(s) == IF s.kind # Struct THEN Return(0) ELSE Panic(ComingSoon)

\* func (s *super) NumField() int
NumField(s) == IF s.kind # Struct THEN Panic(MustBeStruct) ELSE Panic(ComingSoon)

\* func (s *super) Field(int) *StructField
Field(s, i) == IF s.kind # Struct THEN Panic(MustBeStruct) ELSE Panic(ComingSoon)

\* func (s *super) FieldByName(name string) (field *StructField, found bool)
FieldByName(s, name) == IF s.kind # Struct THEN Panic(MustBeStruct) ELSE Panic(ComingSoon)

\* ------------------------ Callers ------------------------
NoArg == <<>>
NoRes == [op |-> "none", node |-> 0, arg |-> NoArg, out |-> "return", val |-> NoArg]
Outcome(op, n, arg, r) == [op |-> op, node |-> n, arg |-> arg, out |-> r.out, val |-> r.val]
NodeIds == 1 .. Len(nodes)
IndexInputs == 0 .. 2
MemberNames == {"Foo", "A"}

\* f.newSuper(namePtr, kind, doc) is called and the node is kept.
NewSuper(f, namePtr, kind) ==
    /\ Len(nodes) < MaxNodes
    /\ nodes' = Append(nodes, newSuper(f, namePtr, kind))
    /\ created' = Append(created, [file |-> f, namePtr |-> namePtr, kind |-> kind])
    /\ res' = Outcome("newSuper", Len(nodes) + 1, NoArg, Return(NoArg))
    /\ UNCHANGED <<heap, kindVars, storeVars, buildVars>>

\* The client assigns f.PkgName, f.Filename or the name of an identifier.
SetPkgName(f, v) ==
    /\ heap' = [heap EXCEPT ![PkgNamePtr(f)] = v]
    /\ UNCHANGED <<nodes, created, res, kindVars, storeVars, buildVars>>

SetFilename(f, v) ==
    /\ heap' = [heap EXCEPT ![FilenamePtr(f)] = v]
    /\ UNCHANGED <<nodes, created, res, kindVars, storeVars, buildVars>>

SetIdentName(id, v) ==
    /\ heap' = [heap EXCEPT ![IdentNamePtr(id)] = v]
    /\ UNCHANGED <<nodes, created, res, kindVars, storeVars, buildVars>>

\* One call of an operation on node n; nothing but the outcome changes.
Call(op, n, arg, r) ==
    /\ res' = Outcome(op, n, arg, r)
    /\ UNCHANGED <<heap, nodes, created, kindVars, storeVars, buildVars>>

CallKind(n) == Call("Kind", n, NoArg, Return(Kind(nodes[n])))
CallName(n) == Call("Name", n, NoArg, Return(Name(nodes[n])))
CallPkgName(n) == Call("PkgName", n, NoArg, Return(PkgName(nodes[n])))
CallFilename(n) == Call("Filename", n, NoArg, Return(Filename(nodes[n])))
CallNumParam(n) == Call("NumParam", n, NoArg, NumParam(nodes[n]))
CallNumResult(n) == Call("NumResult", n, NoArg, NumResult(nodes[n]))
CallParam(n, i) == Call("Param", n, i, Param(nodes[n], i))
CallResult(n, i) == Call("Result", n, i, Result(nodes[n], i))
CallIsVariadic(n) == Call("IsVariadic", n, NoArg, IsVariadic(nodes[n]))
CallRecv(n) == Call("Recv", n, NoArg, Recv(nodes[n]))
CallIsAssign(n) == Call("IsAssign", n, NoArg, IsAssign(nodes[n]))
CallNumMethod(n) == Call("NumMethod", n, NoArg, NumMethod(nodes[n]))
CallMethod(n, i) == Call("Method", n, i, Method(nodes[n], i))
CallMethodByName(n, name) == Call("MethodByName", n, name, MethodByName(nodes[n], name))
CallImplements(n, u) == Call("Implements", n, u, Implements(nodes[n], nodes[u]))
CallAddMethod(n, fn) == Call("addMethod", n, fn, addMethod(nodes[n], nodes[fn]))
CallNumField(n) == Call("NumField", n, NoArg, NumField(nodes[n]))
CallField(n, i) == Call("Field", n, i, Field(nodes[n], i))
CallFieldByName(n, name) == Call("FieldByName", n, name, FieldByName(nodes[n], name))

\* ------------------------------------------------------------------------
\* Semantic Model Builder: classification to a fixpoint
\* ------------------------------------------------------------------------
DeclNames == <<"T1", "T2", "T3", "T4", "T5">>     \* the declared type names
DeclIds == 1 .. MaxDecls
External == "pkg.X"                               \* a type outside the module
\* A declared type is the name of a type or a structural shape.
TypeIdents == {"int", External} \cup {DeclNames[d] : d \in DeclIds}
DeclTypes == {<<"ident", id>> : id \in TypeIdents} \cup {<<"shape", Struct>>}

Unresolved(k) == k \in {Invalid, Suspense}

\* The declaration a type name refers to, 0 when the module declares none.
Referent(id) ==
    IF \E d \in DeclIds : DeclNames[d] = id
    THEN CHOOSE d \in DeclIds : DeclNames[d] = id
    ELSE 0

\* The Kind of one declaration, given the Kinds found so far: the builtin
\* table, the structural shape, or the Kind of the declaration referred to
\* once that one is classified; Suspense otherwise.
Classify(t, kinds) ==
    IF t[1] = "shape" THEN t[2]
    ELSE LET basic == getBasicKind(t[2])
             r == Referent(t[2])
         IN IF basic[2] THEN basic[1]
            ELSE IF r # 0 /\ ~Unresolved(kinds[r]) THEN kinds[r]
            ELSE Suspense

\* One pass over the declarations not yet resolved, in position order.
RECURSIVE PassFrom(_, _, _)
PassFrom(d, kinds, progress) ==
    IF d > MaxDecls THEN [kinds |-> kinds, progress |-> progress]
    ELSE IF ~Unresolved(kinds[d]) THEN PassFrom(d + 1, kinds, progress)
    ELSE LET k == Classify(declType[d], kinds)
         IN PassFrom(d + 1, [kinds EXCEPT ![d] = k], progress \/ ~Unresolved(k))

\* The builder stops after its first pass, whatever that pass resolved.
Fixpoint_singlePass(progress) == TRUE

\* The builder stops after a pass that resolved nothing.
Fixpoint(progress) == ~progress

Pass ==
    /\ phase = "building"
    /\ LET r == PassFrom(1, declKind, FALSE)
       IN /\ declKind' = r.kinds
          /\ phase' = IF Fixpoint(r.progress) THEN "done" ELSE "building"
    /\ passes' = passes + 1
    /\ UNCHANGED <<declType, kindVars, storeVars, nodeVars>>

\* ------------------------------------------------------------------------
\* Specifications
\* ------------------------------------------------------------------------
NoRet == [op |-> "none", batch |-> {}, err |-> Nil, codes |-> NoCodes]
Faults == {NoFault} \cup (Stages \X (AllFiles \cup {DirOf(p) : p \in PkgNames}))

IdleKind == kindLog = <<>>

IdleStore ==
    /\ Packages = [p \in PkgNames |-> [f \in FilesOf(p) |-> "ok"]]
    /\ disk = [f \in AllFiles |-> Old(f)]
    /\ fsFail = NoFault
    /\ ret = NoRet
    /\ fmtLog = NoCalls
    /\ writeLog = NoCalls

\* Two files of package main and one identifier; no node yet.
InitNode ==
    /\ heap = [a \in Addrs |-> IF a[2] = "PkgName" THEN "main"
                               ELSE IF a[2] = "Filename"
                                    THEN (IF a[1] = "f1" THEN "a.go" ELSE "b.go")
                                    ELSE "T"]
    /\ nodes = <<>>
    /\ created = <<>>
    /\ res = NoRes

\* A loaded module: each file's syntax tree either renders or does not; the
\* directories hold the source every file was loaded from; at most one
\* file or one directory cannot be written.
InitStore ==
    /\ \E bad \in SUBSET AllFiles :
           Packages = [p \in PkgNames |->
                          [f \in FilesOf(p) |-> IF f \in bad THEN "bad" ELSE "ok"]]
    /\ disk = [f \in AllFiles |-> Old(f)]
    /\ fsFail \in Faults
    /\ ret = NoRet
    /\ fmtLog = NoCalls
    /\ writeLog = NoCalls

NextKind == \E basicName \in NameInputs : CallGetBasicKind(basicName)

NextStore ==
    \/ CallModuleFormat
    \/ \E p \in PkgNames : CallPackageFormat(p)
    \/ CallModuleStore
    \/ \E p \in PkgNames : CallPackageStore(p)
    \/ \E f \in AllFiles : CallFileStore(f)

\* The Kinds nodes are created with: one of each class the guards tell apart
\* (Func, Struct, the other composites, the primitives, the sentinels).
KindInputs == {Suspense, String, Interface, Func, Struct, Ptr}

\* The reflective operations, called on nodes of every Kind.
NextReflect ==
    \/ \E kind \in KindInputs : NewSuper("f1", NilPtr, kind)
    \/ \E n \in NodeIds : CallNumParam(n)
    \/ \E n \in NodeIds : CallNumResult(n)
    \/ \E n \in NodeIds, i \in IndexInputs : CallParam(n, i)
    \/ \E n \in NodeIds, i \in IndexInputs : CallResult(n, i)
    \/ \E n \in NodeIds : CallIsVariadic(n)
    \/ \E n \in NodeIds : CallRecv(n)
    \/ \E n \in NodeIds : CallIsAssign(n)
    \/ \E n \in NodeIds : CallNumMethod(n)
    \/ \E n \in NodeIds, i \in IndexInputs : CallMethod(n, i)
    \/ \E n \in NodeIds, name \in MemberNames : CallMethodByName(n, name)
    \/ \E n \in NodeIds, u \in NodeIds : CallImplements(n, u)
    \/ \E n \in NodeIds, fn \in NodeIds : CallAddMethod(n, fn)
    \/ \E n \in NodeIds : CallNumField(n)
    \/ \E n \in NodeIds, i \in IndexInputs : CallField(n, i)
    \/ \E n \in NodeIds, name \in MemberNames : CallFieldByName(n, name)

\* The common queries, on nodes of two files whose fields are reassigned.
NextSuper ==
    \/ \E f \in FileIds, namePtr \in {NilPtr} \cup {IdentNamePtr(id) : id \in IdentIds},
          kind \in {Func, Struct} : NewSuper(f, namePtr, kind)
    \/ \E f \in FileIds, v \in PkgNameValues : SetPkgName(f, v)
    \/ \E f \in FileIds, v \in FilenameValues : SetFilename(f, v)
    \/ \E id \in IdentIds, v \in NameValues : SetIdentName(id, v)
    \/ \E n \in NodeIds : CallKind(n)
    \/ \E n \in NodeIds : CallName(n)
    \/ \E n \in NodeIds : CallPkgName(n)
    \/ \E n \in NodeIds : CallFilename(n)

\* No declaration has been given a Kind yet.
InitBuilder ==
    /\ declType \in [DeclIds -> DeclTypes]
    /\ declKind = [d \in DeclIds |-> Invalid]
    /\ phase = "building"
    /\ passes = 0

IdleBuilder ==
    /\ declType = [d \in DeclIds |-> <<"shape", Struct>>]
    /\ declKind = [d \in DeclIds |-> Invalid]
    /\ phase = "building"
    /\ passes = 0

NextBuilder == Pass

InitKindSpec == IdleKind /\ IdleStore /\ InitNode /\ IdleBuilder
InitStoreSpec == IdleKind /\ InitStore /\ InitNode /\ IdleBuilder
InitNodeSpec == IdleKind /\ IdleStore /\ InitNode /\ IdleBuilder
InitBuilderSpec == IdleKind /\ IdleStore /\ InitNode /\ InitBuilder

SpecKind == InitKindSpec /\ [][NextKind]_vars
SpecStore == InitStoreSpec /\ [][NextStore]_vars
SpecReflect == InitNodeSpec /\ [][NextReflect]_vars
SpecSuper == InitNodeSpec /\ [][NextSuper]_vars
\* The builder is a loop of one thread: a pass that can be made is made.
SpecBuilder == InitBuilderSpec /\ [][NextBuilder]_vars /\ WF_vars(Pass)

\* ------------------------------------------------------------------------
\* Kind classification table
\* ------------------------------------------------------------------------
\* The 17 builtin identifiers, in the order of the Kind enumeration.
BuiltinNames ==
    <<"bool", "int", "int8", "int16", "int32", "int64", "uint", "uint8",
      "uint16", "uint32", "uint64", "uintptr", "float32", "float64",
      "complex64", "complex128", "string">>

IsBuiltin(name) == \E i \in 1 .. Len(BuiltinNames) : BuiltinNames[i] = name

\* C1: getBasicKind returns (K, true) with K the Kind of the same position
\* for each of the 17 builtin identifiers, K being a primitive Kind (never
\* Invalid, Suspense or a composite Kind) and distinct for distinct names;
\* for every other string it returns (Invalid, false).
C1_BuiltinTable ==
    /\ \A c \in 1 .. Len(kindLog) :
           LET name == kindLog[c][1]
               k == kindLog[c][2]
               found == kindLog[c][3]
           IN IF IsBuiltin(name)
              THEN /\ found = TRUE
                   /\ \A i \in 1 .. Len(BuiltinNames) :
                          BuiltinNames[i] = name => k = Bool + (i - 1)
                   /\ k \in Bool .. String
                   /\ k \notin {Invalid, Suspense} \cup (Interface .. Ptr)
              ELSE k = Invalid /\ found = FALSE
    /\ \A c, d \in 1 .. Len(kindLog) :
           (kindLog[c][3] /\ kindLog[d][3] /\ kindLog[c][1] # kindLog[d][1])
               => kindLog[c][2] # kindLog[d][2]

\* Two builtin identifiers of neighbouring width were classified.
C1_Witness ==
    /\ \E c \in 1 .. Len(kindLog) : kindLog[c] = <<"uint8", Uint8, TRUE>>
    /\ \E c \in 1 .. Len(kindLog) : kindLog[c] = <<"uint16", Uint16, TRUE>>

\* ------------------------------------------------------------------------
\* Format and Store
\* ------------------------------------------------------------------------
IsWriteErr(e) == e[1] \in Stages
IsFormatErr(e) == e[1] = "format"
Attempted(log) == {c[1] : c \in log.calls}
BadFiles(batch) == {f \in batch : Packages[f[1]][f] = "bad"}

\* C2: a Module.Store or Package.Store call whose files all render: when a
\* write fails, every file written before it holds its rendered text, no
\* file is written after it (the files not attempted are as they were), no
\* file is attempted twice, and Store returns the error of the failed
\* write; when no write fails, every file of the batch is written exactly
\* once and Store returns nil.
C2_StoreStopsAtFirstFailedWrite ==
    [][(ret'.op \in {"Module.Store", "Package.Store"} /\ ~IsFormatErr(ret'.err)) =>
          /\ writeLog'.n = Cardinality(Attempted(writeLog'))
          /\ Attempted(writeLog') \subseteq ret'.batch
          /\ \A f \in AllFiles \ Attempted(writeLog') : disk'[f] = disk[f]
          /\ IsWriteErr(ret'.err) =>
                 /\ <<writeLog'.last, ret'.err>> \in writeLog'.calls
                 /\ \A c \in writeLog'.calls :
                        c[1] # writeLog'.last =>
                            c[2] = Nil /\ disk'[c[1]] = Text(c[1])
          /\ ~IsWriteErr(ret'.err) =>
                 /\ ret'.err = Nil
                 /\ Attempted(writeLog') = ret'.batch
                 /\ \A c \in writeLog'.calls : c[2] = Nil
                 /\ \A f \in ret'.batch : disk'[f] = Text(f)
      ]_vars

\* The second of three writes failed, in a directory where every write
\* fails: one file is written, one is not attempted.
C2_Witness ==
    /\ ret.op = "Module.Store"
    /\ IsWriteErr(ret.err)
    /\ Cardinality(ret.batch) = 3
    /\ writeLog.n = 2
    /\ fsFail[2] = DirOf("a")
    /\ \E f \in ret.batch : disk[f] = Text(f)
    /\ \E f \in ret.batch \ Attempted(writeLog) : disk[f] = Old(f)

\* C8: when a file of the batch fails to render, Format and Store return
\* that file's error, the failing File.Format call is the last one made,
\* and Store makes no write and leaves the disk as it was.
C8_FormatFailureAbortsBatch ==
    [][(ret'.op # "none" /\ BadFiles(ret'.batch) # {}) =>
          /\ ret'.err \in {FormatErr(f) : f \in BadFiles(ret'.batch)}
          /\ ret'.err = FormatErr(fmtLog'.last)
          /\ fmtLog'.n = Cardinality(fmtLog'.calls)
          /\ \A f \in fmtLog'.calls \ {fmtLog'.last} : f \notin BadFiles(ret'.batch)
          /\ writeLog' = NoCalls
          /\ disk' = disk
      ]_vars

\* Module.Store met a file that does not render after one that does.
C8_Witness ==
    /\ ret.op = "Module.Store"
    /\ IsFormatErr(ret.err)
    /\ fmtLog.n >= 2
    /\ writeLog = NoCalls
    /\ \A f \in AllFiles : disk[f] = Old(f)

\* ------------------------------------------------------------------------
\* Kind-guarded operations
\* ------------------------------------------------------------------------
FuncOnlyOps == {"NumParam", "NumResult", "Param", "Result", "IsVariadic", "Recv"}
TypeOnlyOps == {"IsAssign", "NumMethod", "Method", "MethodByName", "Implements", "addMethod"}
StructOnlyOps == {"NumField", "Field", "FieldByName"}

\* The Kind of the node the latest call was made on.
ResKind == nodes[res.node].kind

\* C3: a call of a Func-only operation on a node whose Kind is not Func, of
\* a TypeNode-only operation on a node whose Kind is Func, or of a
\* Struct-only operation on a node whose Kind is not Struct panics with the
\* Kind message of its class, returns no value and leaves every node and
\* every string the nodes point to as they were.
C3_WrongKindIsFatal ==
    [][/\ (res'.op \in FuncOnlyOps /\ nodes'[res'.node].kind # Func) =>
              (res'.out = "panic" /\ res'.val = MustBeFunc
                  /\ nodes' = nodes /\ heap' = heap)
       /\ (res'.op \in TypeOnlyOps /\ nodes'[res'.node].kind = Func) =>
              (res'.out = "panic" /\ res'.val = CantBeFunc
                  /\ nodes' = nodes /\ heap' = heap)
       /\ (res'.op \in StructOnlyOps /\ nodes'[res'.node].kind # Struct) =>
              (res'.out = "panic" /\ res'.val = MustBeStruct
                  /\ nodes' = nodes /\ heap' = heap)
      ]_vars

\* A field count was asked of a function.
C3_Witness ==
    /\ res.op = "NumField"
    /\ ResKind = Func
    /\ res.out = "panic"

\* C4: on a node whose Kind is Func, Param(i) and Result(i) raise no fatal
\* error for any i: they return a field and a found flag.
C4_ParamResultNeverFatalOnFunc ==
    (res.op \in {"Param", "Result"} /\ ResKind = Func) => res.out = "return"

\* C5: on a node whose Kind is not Func, addMethod returns: nil when the
\* method is attached, DuplicateMethodError when its name is already there.
C5_AddMethodReturnsOnTypeNode ==
    (res.op = "addMethod" /\ ResKind # Func) =>
        (res.out = "return" /\ res.val \in {"nil", "DuplicateMethodError"})

\* C6, as claimed: addMethod on a node whose Kind is Func returns
\* ReceiverMismatchError as an error value.
C6_AddMethodOnFuncReturnsError ==
    (res.op = "addMethod" /\ ResKind = Func) =>
        (res.out = "return" /\ res.val = "ReceiverMismatchError")

\* C6, amended: addMethod on a node whose Kind is Func is fatal: it panics
\* with the message that the Kind cannot be Func, returns no error value
\* and leaves the nodes as they were.
C6_AddMethodOnFuncIsFatal ==
    [][(res'.op = "addMethod" /\ nodes'[res'.node].kind = Func) =>
          (res'.out = "panic" /\ res'.val = CantBeFunc /\ res'.val # "ReceiverMismatchError"
              /\ nodes' = nodes /\ heap' = heap)
      ]_vars

\* A method was attached to a function.
C6_Witness ==
    /\ res.op = "addMethod"
    /\ ResKind = Func
    /\ nodes[res.arg].kind = Func
    /\ res.out = "panic"

\* C7: for T whose Kind is not Func and U whose Kind is Interface,
\* T.Implements(U) returns a boolean and never fails.
C7_ImplementsReturnsBoolean ==
    (res.op = "Implements" /\ ResKind # Func /\ nodes[res.arg].kind = Interface) =>
        (res.out = "return" /\ res.val \in BOOLEAN)

\* ------------------------------------------------------------------------
\* Back-references of a node
\* ------------------------------------------------------------------------
\* C10: for every node created by newSuper, in every reachable state,
\* PkgName() and Filename() are the current PkgName and Filename of the
\* File the node was created on, Name() is the current string behind the
\* name pointer and is empty exactly when there is no such pointer or the
\* string is empty, and Kind() is the Kind given at creation.
C10_BackReferencesFollowTheFile ==
    /\ \A n \in NodeIds :
           LET s == nodes[n]
               c == created[n]
           IN /\ PkgName(s) = heap[PkgNamePtr(c.file)]
              /\ Filename(s) = heap[FilenamePtr(c.file)]
              /\ c.namePtr # NilPtr => Name(s) = heap[c.namePtr]
              /\ Name(s) = "" <=> (c.namePtr = NilPtr \/ heap[c.namePtr] = "")
              /\ Kind(s) = c.kind
    /\ (res.op = "Kind" /\ res.node \in NodeIds) => res.val = created[res.node].kind

\* PkgName() was asked of a node of f2 after f2.PkgName was reassigned, and
\* there is a node without a name.
C10_Witness ==
    /\ heap[PkgNamePtr("f2")] = "aster"
    /\ heap[PkgNamePtr("f1")] = "main"
    /\ res.op = "PkgName"
    /\ res.node \in NodeIds
    /\ created[res.node].file = "f2"
    /\ res.val = "aster"
    /\ \E n \in NodeIds : created[n].namePtr = NilPtr /\ Name(nodes[n]) = ""

\* ------------------------------------------------------------------------
\* Classification resolution
\* ------------------------------------------------------------------------
\* The declarations whose chain of references reaches, within the module, a
\* declaration of a builtin or structural type: those reached in at most i
\* steps.
RECURSIVE ResolvableIn(_)
ResolvableIn(i) ==
    IF i = 0
    THEN {d \in DeclIds : declType[d][1] = "shape" \/ IsBuiltin(declType[d][2])}
    ELSE LET prev == ResolvableIn(i - 1)
         IN prev \cup {d \in DeclIds : declType[d][1] = "ident"
                                         /\ Referent(declType[d][2]) \in prev}
Resolvable == ResolvableIn(MaxDecls)

\* C9: the builder reaches "done"; a declaration that has left Suspense
\* keeps its Kind; when the builder is done, every declaration whose
\* references lead to a classified declaration of the module has a Kind
\* other than Suspense, and every other declaration (a type outside the
\* module, a cycle of references) has Kind Suspense.
C9_ResolutionReachesFixpoint ==
    /\ <>(phase = "done")
    /\ [](phase = "done" =>
             \A d \in DeclIds :
                 IF d \in Resolvable
                 THEN ~Unresolved(declKind[d])
                 ELSE declKind[d] = Suspense)
    /\ [][\A d \in DeclIds : ~Unresolved(declKind[d]) => declKind'[d] = declKind[d]]_vars

\* The builder is done after three passes or more, with a declaration
\* resolved through another one and a declaration left in Suspense.
C9_Witness ==
    /\ phase = "done"
    /\ passes >= 3
    /\ \E d \in DeclIds : declType[d][1] = "ident" /\ Referent(declType[d][2]) # 0
                            /\ ~Unresolved(declKind[d])
    /\ \E d \in DeclIds : declKind[d] = Suspense

====
